---------------------------- MODULE Spec2Model ----------------------------
(***************************************************************************)
(* A model of the word flip game (src/src/App.jsx): the seeded shuffle,    *)
(* the deck manager (resetDeck / dealNext), the dictionary loader          *)
(* (loadDict / chooseDict) and the session handlers (onStart, onRestart,   *)
(* onAnswer) of the App component.                                          *)
(*                                                                         *)
(* A JavaScript string is a sequence of one-character strings, null is the *)
(* empty tuple and a non-null value x of a nullable field is <<x>>.        *)
(* The cosmetic state (wordColor, flipKey and the salt dealNext hands to   *)
(* pickColor) decides no control flow and is left out.                     *)
(***************************************************************************)
EXTENDS Integers, Sequences, FiniteSets, TLC

(***************************************************************************)
(* Bounds of the model.                                                    *)
(***************************************************************************)
\* longest word list a dictionary resource carries
MaxLen == 3
\* answers given in one game before the model stops counting
MaxAnswers == 3

(***************************************************************************)
(* Values.                                                                 *)
(***************************************************************************)
Null == <<>>
Some(x) == <<x>>

Range(s) == {s[i] : i \in 1..Len(s)}

\* every sequence over S of length lo..hi
SeqsOf(S, lo, hi) == UNION {[1..n -> S] : n \in lo..hi}

\* the characters String.prototype.trim strips
Whitespace == {" ", "\t"}

(***************************************************************************)
(* shuffle (App.jsx 39-46).  The random source is the sequence of the      *)
(* values its successive calls return; a value in [0,1) is d / RndDen for  *)
(* a d in 0..RndDen-1; with RndDen >= i + 1 every index 0..i is drawn.     *)
(***************************************************************************)
RndDen == MaxLen

RndValues == 0..(RndDen - 1)

\* the random sources shuffle reads on an array of n entries
RndSources(n) == [1..(IF n > 0 THEN n - 1 ELSE 0) -> RndValues]

\* Math.floor(rnd() * (i + 1))
floorScale(d, i) == (d * (i + 1)) \div RndDen

\* (a swap that loses a[i])
swapLosing(a, i, j) == [a EXCEPT ![i + 1] = a[j + 1]]

\* [a[i], a[j]] = [a[j], a[i]] on 0-based indices
swap(a, i, j) == [a EXCEPT ![i + 1] = a[j + 1], ![j + 1] = a[i + 1]]

RECURSIVE shuffleLoop(_, _, _)
\* the for loop: i from a.length - 1 down to 1, one rnd() per iteration
shuffleLoop(a, i, rnd) ==
    IF i > 0
    THEN shuffleLoop(swap(a, i, floorScale(Head(rnd), i)), i - 1, Tail(rnd))
    ELSE a

\* one call of shuffle: the returned array a and the argument array after it
\* (a is a copy, [...arr], so the loop never writes arr)
shuffleRun(arr, rnd) ==
    [a |-> shuffleLoop(arr, Len(arr) - 1, rnd), arr |-> arr]

shuffle(arr, rnd) == shuffleRun(arr, rnd).a

(***************************************************************************)
(* loadDict (App.jsx 74-85).  A fetch either rejects (the network failed)  *)
(* or resolves to a response with a status and a body; the body parses as  *)
(* JSON or not; the JSON carries a name (a string or not) and words (an    *)
(* array of strings or something else).                                    *)
(***************************************************************************)
RECURSIVE trimStart(_)
trimStart(s) ==
    IF s # <<>> /\ Head(s) \in Whitespace THEN trimStart(Tail(s)) ELSE s

RECURSIVE trimEnd(_)
trimEnd(s) ==
    IF s # <<>> /\ s[Len(s)] \in Whitespace
    THEN trimEnd(SubSeq(s, 1, Len(s) - 1))
    ELSE s

\* String.prototype.trim
trim(s) == trimEnd(trimStart(s))

RECURSIVE mapTrim(_)
\* words.map((w) => String(w).trim())
mapTrim(ws) == IF ws = <<>> THEN <<>> ELSE <<trim(Head(ws))>> \o mapTrim(Tail(ws))

nonBlank(w) == Len(w) > 0

\* (a filter that drops nothing)
keepAll(ws) == ws

\* .filter((w) => w.length > 0)
filterNonBlank(ws) == SelectSeq(ws, nonBlank)

\* Response.ok: a status in 200..299
resOk(status) == status >= 200 /\ status <= 299

NoMsg == [text |-> "", url |-> "", status |-> 0]

\* `load failed: ${url} (${res.status})`
StatusMsg(url, status) == [text |-> "load failed", url |-> url, status |-> status]

\* `dictionary is empty: ${url}`
EmptyMsg(url) == [text |-> "dictionary is empty", url |-> url, status |-> 0]

\* the message of an error thrown by fetch or by res.json()
ThrownMsg(text) == [text |-> text, url |-> "", status |-> 0]

\* the name used when json.name is not a string
DefaultName == "dictionary"

\* what a fetch ends as
Rejected(message) ==
    [kind |-> "reject", message |-> message, status |-> 0, isJson |-> FALSE,
     nameIsString |-> FALSE, name |-> "", wordsIsArray |-> FALSE, words |-> <<>>]

Response(status, isJson, nameIsString, name, wordsIsArray, ws) ==
    [kind |-> "response", message |-> NoMsg, status |-> status, isJson |-> isJson,
     nameIsString |-> nameIsString, name |-> name, wordsIsArray |-> wordsIsArray,
     words |-> ws]

Returned(name, ws) == [ok |-> TRUE, message |-> NoMsg, name |-> name, words |-> ws]

Thrown(message) == [ok |-> FALSE, message |-> message, name |-> "", words |-> <<>>]

\* the outcome of loadDict(url) when the fetch ends as res: the returned
\* {name, words}, or the message of the error thrown
loadDict(url, res) ==
    IF res.kind = "reject" THEN Thrown(res.message)
    ELSE IF ~resOk(res.status) THEN Thrown(StatusMsg(url, res.status))
    ELSE IF ~res.isJson THEN Thrown(ThrownMsg("Unexpected token"))
    ELSE LET name == IF res.nameIsString THEN res.name ELSE DefaultName
             ws == IF res.wordsIsArray THEN res.words ELSE <<>>
             cleaned == filterNonBlank(mapTrim(ws))
         IN  IF Len(cleaned) = 0 THEN Thrown(EmptyMsg(url))
             ELSE Returned(name, cleaned)

(***************************************************************************)
(* The App component (App.jsx 87-215).                                     *)
(***************************************************************************)
\* the two dictionary buttons
DICTS ==
    << [label |-> "review", url |-> "words/review.json"],
       [label |-> "new", url |-> "words/new.json"] >>

VARIABLES
    dictLabel,   \* useState(null): the label of the chosen dictionary
    dictName,    \* useState(null): json.name of the chosen dictionary
    words,       \* useState([]): the word list
    loading,     \* useState(false)
    errMsg,      \* useState(""): the error shown under the buttons
    started,     \* useState(false): Playing or NotStarted
    correct,     \* useState(0)
    wrong,       \* useState(0)
    word,        \* useState(null): the current word
    used,        \* usedRef.current: the UsedSet
    queue,       \* queueRef.current: the Deck
    pending,     \* the chooseDict calls suspended at `await loadDict(url)`
    last,        \* history: what the last handler did
    dealt,       \* history: the words the top-level dealNext calls returned
                 \* since the last resetDeck made outside dealNext
    dealCalls,   \* history: the number of those calls
    probe        \* the call of a pure function under check

appVars == <<dictLabel, dictName, words, loading, errMsg, started, correct,
             wrong, word, used, queue>>

histVars == <<last, dealt, dealCalls>>

vars == <<dictLabel, dictName, words, loading, errMsg, started, correct,
          wrong, word, used, queue, pending, last, dealt, dealCalls, probe>>

WordSet(ws) == Range(ws)
(***************************************************************************)
(* The deck manager (App.jsx 110-144).  The operators work on the record   *)
(* of what a handler has done so far to the two refs and to the current    *)
(* word; resets and calls count its resetDeck and dealNext calls, snapUsed *)
(* and snapQueue are the refs as its last resetDeck left them.  A          *)
(* resetDeck draws a fresh seed (computeSeed mixes Math.random in), so the *)
(* operators return the set of the outcomes over every random source.      *)
(***************************************************************************)
\* how deep dealNext may call itself before the model reports divergence
MaxDepth == 2

Handler(u, q, w) ==
    [used |-> u, queue |-> q, word |-> w, resets |-> 0, calls |-> 0,
     snapUsed |-> {}, snapQueue |-> <<>>, diverged |-> FALSE]

\* the decks shuffle(words, mulberry32(computeSeed())) can return
ShufflesOf(ws) == {shuffle(ws, rnd) : rnd \in RndSources(Len(ws))}

\* the words the dictionaries of the App's runs are made of
Entries == {<<"a">>, <<"b">>}

\* ShufflesOf, computed once for the lists over Entries
ShuffleTable ==
    (<<"none">> :> {}) @@ [ws \in SeqsOf(Entries, 0, MaxLen) |-> ShufflesOf(ws)]

Shuffles(ws) ==
    IF ws \in DOMAIN ShuffleTable THEN ShuffleTable[ws] ELSE ShufflesOf(ws)

\* (a resetDeck that keeps the UsedSet)
resetDeckKeepingUsed(h, ws) ==
    {[h EXCEPT !.queue = q, !.resets = @ + 1,
               !.snapUsed = h.used, !.snapQueue = q] : q \in Shuffles(ws)}

\* (a resetDeck that reshuffles what is left of the Deck)
resetDeckOfQueue(h, ws) ==
    {[h EXCEPT !.used = {}, !.queue = q, !.resets = @ + 1,
               !.snapUsed = {}, !.snapQueue = q] : q \in Shuffles(h.queue)}

\* resetDeck
resetDeck(h, ws) ==
    {[h EXCEPT !.used = {}, !.queue = q, !.resets = @ + 1,
               !.snapUsed = {}, !.snapQueue = q] : q \in Shuffles(ws)}

\* (a loop that takes the front word, used or not)
whileShiftAny(q, u) ==
    IF Len(q) > 0
    THEN [queue |-> Tail(q), next |-> Some(Head(q))]
    ELSE [queue |-> q, next |-> Null]

RECURSIVE whileShiftPeek(_, _)
\* (a loop that reads the front word and leaves it in the Deck)
whileShiftPeek(q, u) ==
    IF Len(q) > 0
    THEN IF Head(q) \notin u
         THEN [queue |-> q, next |-> Some(Head(q))]
         ELSE whileShiftPeek(Tail(q), u)
    ELSE [queue |-> q, next |-> Null]

RECURSIVE whileShift(_, _)
\* the while loop of dealNext: shift until a word not in the UsedSet
whileShift(q, u) ==
    IF Len(q) > 0
    THEN IF Head(q) \notin u
         THEN [queue |-> Tail(q), next |-> Some(Head(q))]
         ELSE whileShift(Tail(q), u)
    ELSE [queue |-> q, next |-> Null]

\* if (next): null and the empty string are falsy
truthy(next) == next # Null /\ next[1] # <<>>

RECURSIVE dealNext(_, _, _)
\* (a dealNext that shows the word without recording it in the UsedSet)
afterShiftForgetting(h, ws, depth) ==
    LET r == whileShift(h.queue, h.used)
        shifted == [h EXCEPT !.queue = r.queue]
    IN  IF truthy(r.next)
        THEN {[shifted EXCEPT !.word = r.next]}
        ELSE IF depth >= MaxDepth
        THEN {[shifted EXCEPT !.diverged = TRUE]}
        ELSE UNION {dealNext(z, ws, depth + 1) : z \in resetDeck(shifted, ws)}

\* dealNext past its loop
afterShift(h, ws, depth) ==
    LET r == whileShift(h.queue, h.used)
        shifted == [h EXCEPT !.queue = r.queue]
    IN  IF truthy(r.next)
        THEN {[shifted EXCEPT !.used = @ \cup {r.next[1]}, !.word = r.next]}
        ELSE IF depth >= MaxDepth
        THEN {[shifted EXCEPT !.diverged = TRUE]}
        ELSE UNION {dealNext(z, ws, depth + 1) : z \in resetDeck(shifted, ws)}

\* dealNext
dealNext(h, ws, depth) ==
    LET entered == [h EXCEPT !.calls = @ + 1]
    IN  IF Len(ws) = 0 THEN {entered}
        ELSE UNION {afterShift(z, ws, depth) :
                      z \in IF Len(entered.queue) = 0
                            THEN resetDeck(entered, ws)
                            ELSE {entered}}

\* the history of a handler's run: what it did (h), whether the UsedSet held
\* every word and the Deck was empty when it called dealNext, the session it
\* started from, and the response a load ended with
Did(op, h, preFull, preEmpty, res) ==
    [op |-> op, resets |-> h.resets, calls |-> h.calls,
     snapUsed |-> h.snapUsed, snapQueue |-> h.snapQueue,
     diverged |-> h.diverged, preFull |-> preFull, preEmpty |-> preEmpty,
     fromStarted |-> started, fromAnswers |-> correct + wrong,
     fromWords |-> words, isCorrect |-> FALSE,
     res |-> res]

NoRes == Rejected(NoMsg)

\* the log of the top-level dealNext calls, kept up to the list's length
Logged(log, h, ws) ==
    IF Len(log) < Len(ws) /\ h.word # Null THEN Append(log, h.word[1]) ELSE log

Counted(n) == IF n <= MaxLen THEN n + 1 ELSE n
(***************************************************************************)
(* The handlers.  A handler runs to its end and React renders before the   *)
(* next event, so a handler and the render after it are one step; the      *)
(* closures a handler reads are those of the latest render.  The setters   *)
(* chooseDict calls after its await are rendered together (React batches   *)
(* them), and the effect on [words] runs after that render and before the  *)
(* next event.                                                             *)
(***************************************************************************)
\* (an onStart without its guard on the word list)
onStartUnguarded ==
    \E z \in resetDeck(Handler(used, queue, word), words) :
      \E h \in dealNext(z, words, 0) :
        /\ started' = TRUE
        /\ correct' = 0
        /\ wrong' = 0
        /\ used' = h.used
        /\ queue' = h.queue
        /\ word' = h.word
        /\ last' = Did("onStart", h, WordSet(words) \subseteq z.used,
                       Len(z.queue) = 0, NoRes)
        /\ dealt' = Logged(<<>>, h, words)
        /\ dealCalls' = 1
        /\ UNCHANGED <<dictLabel, dictName, words, loading, errMsg,
                       pending, probe>>

\* onStart
onStart ==
    IF Len(words) = 0
    THEN /\ UNCHANGED <<appVars, pending, dealt, dealCalls, probe>>
         /\ last' = Did("onStart", Handler(used, queue, word), FALSE, FALSE, NoRes)
    ELSE \E z \in resetDeck(Handler(used, queue, word), words) :
           \E h \in dealNext(z, words, 0) :
             /\ started' = TRUE
             /\ correct' = 0
             /\ wrong' = 0
             /\ used' = h.used
             /\ queue' = h.queue
             /\ word' = h.word
             /\ last' = Did("onStart", h, WordSet(words) \subseteq z.used,
                            Len(z.queue) = 0, NoRes)
             /\ dealt' = Logged(<<>>, h, words)
             /\ dealCalls' = 1
             /\ UNCHANGED <<dictLabel, dictName, words, loading, errMsg,
                            pending, probe>>

\* toStartScreen({ reshuffle })
toStartScreen(reshuffle) ==
    \E h \in IF reshuffle /\ Len(words) > 0
             THEN resetDeck(Handler({}, <<>>, Null), words)
             ELSE {Handler({}, <<>>, Null)} :
      /\ started' = FALSE
      /\ correct' = 0
      /\ wrong' = 0
      /\ word' = Null
      /\ used' = h.used
      /\ queue' = h.queue
      /\ last' = Did("onRestart", h, FALSE, FALSE, NoRes)
      /\ dealt' = <<>>
      /\ dealCalls' = 0
      /\ UNCHANGED <<dictLabel, dictName, words, loading, errMsg, pending, probe>>

\* (a restart that does not reshuffle)
onRestartUnshuffled == toStartScreen(FALSE)

\* onRestart
onRestart == toStartScreen(TRUE)

\* (an answer that counts on both sides)
tallyBoth(isCorrect) == [correct |-> correct + 1, wrong |-> wrong + 1]

\* if (isCorrect) setCorrect((c) => c + 1); else setWrong((w) => w + 1);
tally(isCorrect) ==
    [correct |-> IF isCorrect THEN correct + 1 ELSE correct,
     wrong |-> IF isCorrect THEN wrong ELSE wrong + 1]

\* onAnswer(isCorrect), the counters becoming those of counted
onAnswerCounting(isCorrect, counted) ==
    IF ~started
    THEN /\ UNCHANGED <<appVars, pending, dealt, dealCalls, probe>>
         /\ last' = [Did("onAnswer", Handler(used, queue, word), FALSE, FALSE,
                         NoRes) EXCEPT !.isCorrect = isCorrect]
    ELSE \E h \in dealNext(Handler(used, queue, word), words, 0) :
           /\ correct' = counted.correct
           /\ wrong' = counted.wrong
           /\ used' = h.used
           /\ queue' = h.queue
           /\ word' = h.word
           /\ last' = [Did("onAnswer", h,
                           Len(words) > 0 /\ WordSet(words) \subseteq used,
                           Len(queue) = 0, NoRes) EXCEPT !.isCorrect = isCorrect]
           /\ dealt' = Logged(dealt, h, words)
           /\ dealCalls' = Counted(dealCalls)
           /\ UNCHANGED <<dictLabel, dictName, words, loading, errMsg, started,
                          pending, probe>>

\* onAnswer(isCorrect)
onAnswer(isCorrect) == onAnswerCounting(isCorrect, tally(isCorrect))

\* (a chooseDict that starts its fetch without raising loading)
chooseDictSilent(d) ==
    /\ errMsg' = NoMsg
    /\ pending' = Append(pending, d)
    /\ last' = Did("chooseDict", Handler(used, queue, word), FALSE, FALSE, NoRes)
    /\ UNCHANGED <<dictLabel, dictName, words, loading, started, correct, wrong,
                   word, used, queue, dealt, dealCalls, probe>>

\* chooseDict(label, url) up to its `await loadDict(url)`
chooseDict(d) ==
    /\ errMsg' = NoMsg
    /\ loading' = TRUE
    /\ pending' = Append(pending, d)
    /\ last' = Did("chooseDict", Handler(used, queue, word), FALSE, FALSE, NoRes)
    /\ UNCHANGED <<dictLabel, dictName, words, started, correct, wrong, word,
                   used, queue, dealt, dealCalls, probe>>

\* e?.message || "loading the dictionary failed"
shown(message) ==
    IF message.text # "" THEN message ELSE ThrownMsg("loading the dictionary failed")

\* (a catch reached after the session was already cleared)
caughtAfterClearing(message) ==
    /\ errMsg' = shown(message)
    /\ started' = FALSE
    /\ correct' = 0
    /\ wrong' = 0
    /\ word' = Null
    /\ used' = {}
    /\ queue' = <<>>
    /\ UNCHANGED <<dictLabel, dictName, words, dealt, dealCalls>>

\* the catch block of chooseDict
caught(message) ==
    /\ errMsg' = shown(message)
    /\ UNCHANGED <<dictLabel, dictName, words, started, correct, wrong, word,
                   used, queue, dealt, dealCalls>>

\* useEffect(..., [words]): prepares the deck once a new word list is rendered
wordsEffect(h, ws) == IF Len(ws) > 0 THEN resetDeck(h, ws) ELSE {h}

Without(q, i) == SubSeq(q, 1, i - 1) \o SubSeq(q, i + 1, Len(q))

\* (a chooseDict that installs the loaded list and leaves the session and the
\* deck of the old list in place)
chooseDictResumeKeepingDeck(i, res) ==
    LET d == pending[i]
        data == loadDict(d.url, res)
    IN  /\ pending' = Without(pending, i)
        /\ loading' = FALSE
        /\ UNCHANGED probe
        /\ IF data.ok
           THEN /\ dictLabel' = Some(d.label)
                /\ dictName' = Some(data.name)
                /\ words' = data.words
                /\ last' = Did("loaded", Handler(used, queue, word),
                               FALSE, FALSE, res)
                /\ UNCHANGED <<started, correct, wrong, word, used, queue,
                               dealt, dealCalls, errMsg>>
           ELSE /\ caught(data.message)
                /\ last' = Did("loadFailed", Handler(used, queue, word),
                               FALSE, FALSE, res)

\* chooseDict from its await on, the fetch of pending[i] having ended as res;
\* the setters of the try block are rendered together, then the effect runs
chooseDictResume(i, res) ==
    LET d == pending[i]
        data == loadDict(d.url, res)
    IN  /\ pending' = Without(pending, i)
        /\ loading' = FALSE
        /\ UNCHANGED probe
        /\ IF data.ok
           THEN \E h \in wordsEffect(Handler({}, <<>>, Null), data.words) :
                  /\ dictLabel' = Some(d.label)
                  /\ dictName' = Some(data.name)
                  /\ words' = data.words
                  /\ started' = FALSE
                  /\ correct' = 0
                  /\ wrong' = 0
                  /\ word' = Null
                  /\ used' = h.used
                  /\ queue' = h.queue
                  /\ last' = Did("loaded", h, FALSE, FALSE, res)
                  /\ dealt' = <<>>
                  /\ dealCalls' = 0
                  /\ UNCHANGED errMsg
           ELSE /\ caught(data.message)
                /\ last' = Did("loadFailed", Handler(used, queue, word),
                               FALSE, FALSE, res)
(***************************************************************************)
(* The environment: what the fetch of a dictionary resource can end as.    *)
(***************************************************************************)
\* the failures: a rejected fetch (with or without a message), a status that
\* is not a success, a body that is not JSON, and words that is not an array
Failures ==
    {Rejected(ThrownMsg("Failed to fetch")), Rejected(NoMsg)}
    \cup {Response(st, FALSE, FALSE, "", FALSE, <<>>) : st \in {404, 500, 200}}
    \cup {Response(200, TRUE, TRUE, "N", FALSE, <<>>)}

Responses ==
    {Rejected(ThrownMsg("Failed to fetch")), Response(404, FALSE, FALSE, "", FALSE, <<>>)}
    \cup {Response(200, TRUE, TRUE, "N", TRUE, ws) : ws \in SeqsOf(Entries, 1, MaxLen)}

\* the strings a resource's words array holds in the loader's runs: the empty
\* one, a blank one, a plain one, and one with whitespace around and inside
RawEntries == {<<>>, <<"\t", " ">>, <<"a">>, <<" ", "a", " ", "b", "\t">>}

LoadResponses ==
    Failures
    \cup {Response(st, TRUE, nis, "N", TRUE, <<<<"a">>>>) :
            st \in {200, 204, 404}, nis \in BOOLEAN}
    \cup {Response(200, TRUE, TRUE, "N", TRUE, ws) :
            ws \in SeqsOf(RawEntries, 0, MaxLen)}

(***************************************************************************)
(* The user's events, as the rendered buttons allow them (App.jsx 248-392):*)
(* the dictionary buttons exist while NotStarted and are disabled while    *)
(* loading, the start button exists while NotStarted, the answer buttons   *)
(* while Playing, and start and restart are disabled without a word list.  *)
(***************************************************************************)
ClickDict == \E i \in 1..Len(DICTS) : ~started /\ ~loading /\ chooseDict(DICTS[i])

FetchEnds == \E i \in 1..Len(pending) : \E res \in Responses : chooseDictResume(i, res)

FetchEndsAnyhow ==
    \E i \in 1..Len(pending) : \E res \in LoadResponses : chooseDictResume(i, res)

ClickStart == ~started /\ Len(words) > 0 /\ onStart

ClickRestart == Len(words) > 0 /\ onRestart

ClickAnswer ==
    \E isCorrect \in BOOLEAN :
      started /\ correct + wrong < MaxAnswers /\ onAnswer(isCorrect)

\* the App as mounted: the initial render and its effect, which finds no words
InitApp ==
    /\ dictLabel = Null
    /\ dictName = Null
    /\ words = <<>>
    /\ loading = FALSE
    /\ errMsg = NoMsg
    /\ started = FALSE
    /\ correct = 0
    /\ wrong = 0
    /\ word = Null
    /\ used = {}
    /\ queue = <<>>
    /\ pending = <<>>
    /\ last = Did("init", Handler({}, <<>>, Null), FALSE, FALSE, NoRes)
    /\ dealt = <<>>
    /\ dealCalls = 0

NoProbe == [fn |-> "none"]

Init == InitApp /\ probe = NoProbe

Next == ClickDict \/ FetchEnds \/ ClickStart \/ ClickRestart \/ ClickAnswer

Spec == Init /\ [][Next]_vars

\* dealNext() called on its own where no handler calls it: on the start
\* screen, a word list loaded or not (while Playing, onAnswer makes the call)
DealNextCall ==
    ~started /\ \E h \in dealNext(Handler(used, queue, word), words, 0) :
      /\ used' = h.used
      /\ queue' = h.queue
      /\ word' = h.word
      /\ last' = Did("dealNext", h,
                     Len(words) > 0 /\ WordSet(words) \subseteq used,
                     Len(queue) = 0, NoRes)
      /\ dealt' = Logged(dealt, h, words)
      /\ dealCalls' = Counted(dealCalls)
      /\ UNCHANGED <<dictLabel, dictName, words, loading, errMsg, started,
                     correct, wrong, pending, probe>>

\* onStart called where its button is not rendered or is disabled
StartCall == (started \/ Len(words) = 0) /\ onStart

\* onAnswer called where its buttons are not rendered
AnswerCall == \E isCorrect \in BOOLEAN : ~started /\ onAnswer(isCorrect)

\* the App with its functions also called past what the buttons allow
NextCalls == Next \/ StartCall \/ AnswerCall \/ DealNextCall

SpecCalls == Init /\ [][NextCalls]_vars

\* the counters of tally kept as their parities: what an unending run of
\* answers needs to stay within finitely many states (dealing reads neither
\* counter, and each answer still changes one of them)
tallyParity(isCorrect) ==
    [correct |-> tally(isCorrect).correct % 2,
     wrong |-> tally(isCorrect).wrong % 2]

\* an answer button clicked, however many answers came before
AnswerOn ==
    \E isCorrect \in BOOLEAN :
      started /\ onAnswerCounting(isCorrect, tallyParity(isCorrect))

\* the first dictionary button clicked (the deck manager reads neither the
\* label nor the url)
ClickFirstDict == ~started /\ ~loading /\ chooseDict(DICTS[1])

NextLive == ClickFirstDict \/ FetchEnds \/ ClickStart \/ ClickRestart \/ AnswerOn

\* the App with a player who, while the session is Playing, goes on answering
SpecLive == Init /\ [][NextLive]_vars /\ WF_vars(AnswerOn)

\* the loader alone, over the wider range of resources
NextLoad == ClickDict \/ FetchEndsAnyhow

SpecLoad == Init /\ [][NextLoad]_vars

(***************************************************************************)
(* shuffle on its own: every array of up to MaxLen entries, every random   *)
(* source.                                                                 *)
(***************************************************************************)
Items == {<<"a">>, <<"b">>, <<"c">>}

InitShuffle ==
    /\ InitApp
    /\ \E arr \in SeqsOf(Items, 0, MaxLen) : \E rnd \in RndSources(Len(arr)) :
         probe = [fn |-> "shuffle", arr |-> arr, rnd |-> rnd, done |-> FALSE,
                  out |-> <<>>, arrAfter |-> arr]

ShuffleCall ==
    /\ ~probe.done
    /\ LET r == shuffleRun(probe.arr, probe.rnd)
       IN  probe' = [probe EXCEPT !.done = TRUE, !.out = r.a, !.arrAfter = r.arr]
    /\ UNCHANGED <<appVars, pending, histVars>>

SpecShuffle == InitShuffle /\ [][ShuffleCall]_vars

(***************************************************************************)
(* The properties.                                                         *)
(***************************************************************************)
Occurrences(x, s) == Cardinality({i \in 1..Len(s) : s[i] = x})

\* s and t hold the same entries the same number of times
SameEntries(s, t) ==
    /\ Len(s) = Len(t)
    /\ \A x \in Range(s) \cup Range(t) : Occurrences(x, s) = Occurrences(x, t)

\* the number of distinct words of the list
Distinct(ws) == Cardinality(WordSet(ws))

FirstOf(s, n) == SubSeq(s, 1, n)

\* C1, as stated: over the N = Len(words) dealNext calls that follow a
\* resetDeck every word of the list is dealt exactly once, and after the N-th
\* call the UsedSet is the set of all words of the list.
C1_AsStated ==
    (Len(words) > 0 /\ dealCalls = Len(words))
        => /\ \A w \in WordSet(words) : Occurrences(w, dealt) = 1
           /\ used = WordSet(words)

\* C1, amended: with D the number of distinct words of the list, each of the
\* first D dealNext calls that follow a resetDeck deals a word, these D words
\* are every word of the list exactly once, and after the D-th call the
\* UsedSet is the set of all words of the list.
C1_FullCycle ==
    Len(words) > 0 =>
        /\ dealCalls <= Distinct(words) => Len(dealt) = dealCalls
        /\ dealCalls >= Distinct(words) =>
             \A w \in WordSet(words) :
               Occurrences(w, FirstOf(dealt, Distinct(words))) = 1
        /\ dealCalls = Distinct(words) => used = WordSet(words)

\* a cycle completed on a list that repeats a word
C1_Witness ==
    /\ Distinct(words) >= 2
    /\ Len(words) > Distinct(words)
    /\ dealCalls = Distinct(words)
    /\ used = WordSet(words)

\* C2: a dealNext called when the UsedSet holds every word of the list resets
\* the deck (UsedSet cleared, Deck a reshuffle of the whole list) and deals a
\* word, after which the UsedSet is just that word; it does not fail, whether
\* the Deck was empty or held used duplicates.
C2_DealAfterFullCycle ==
    last.preFull =>
        /\ ~last.diverged
        /\ last.resets >= 1
        /\ last.snapUsed = {}
        /\ SameEntries(last.snapQueue, words)
        /\ word # Null
        /\ used = {word[1]}
        /\ <<word[1]>> \o queue = last.snapQueue

\* the call found every word used and used duplicates still in the Deck
C2_Witness ==
    /\ last.op = "onAnswer"
    /\ last.preFull
    /\ ~last.preEmpty
    /\ Distinct(words) >= 2

\* C3: within one shuffle cycle no word is dealt twice: a dealNext that does
\* not reset deals a word that was not in the UsedSet and adds just it; one
\* that resets starts the new cycle's UsedSet with the word it deals.
C3_NoRepeatInCycle ==
    [][(last'.calls > 0 /\ Len(words) > 0) =>
          /\ word' # Null
          /\ word'[1] \in used'
          /\ last'.resets = 0 => (word'[1] \notin used /\ used' = used \cup {word'[1]})
          /\ last'.resets > 0 => used' = {word'[1]}]_vars

\* a deal inside a cycle that skipped a used duplicate
C3_Witness ==
    /\ last.op = "onAnswer"
    /\ last.resets = 0
    /\ Cardinality(used) >= 2
    /\ Len(queue) + Cardinality(used) < Len(words)

\* C4: every resetDeck leaves the UsedSet empty and the Deck a permutation of
\* the whole word list, whatever they held before; a restart, which ends with
\* it, leaves the refs so.
C4_ResetDeck ==
    last.resets > 0 =>
        /\ last.snapUsed = {}
        /\ SameEntries(last.snapQueue, words)
        /\ last.op = "onRestart" => (used = {} /\ queue = last.snapQueue)

\* a reset made by dealNext on a Deck that still held words
C4_Witness ==
    /\ last.op = "onAnswer"
    /\ last.resets = 1
    /\ ~last.preEmpty
    /\ Len(words) >= 2

\* C5: shuffle returns an array with the same entries as its argument, each
\* as many times, and leaves the argument as it was.
C5_ShufflePermutes ==
    (probe.fn = "shuffle" /\ probe.done) =>
        /\ SameEntries(probe.out, probe.arr)
        /\ probe.arrAfter = probe.arr

\* a shuffle of three distinct entries that moved them
C5_Witness ==
    /\ probe.fn = "shuffle"
    /\ probe.done
    /\ Cardinality(Range(probe.arr)) >= 3
    /\ probe.out # probe.arr

\* C7: start, with a word list loaded and the session NotStarted, leaves the
\* session Playing with both counters 0 and the first word of a fresh cycle
\* dealt: the current word is a word of the list, the UsedSet is just it, and
\* the Deck is the other N-1 entries of a fresh permutation of the list.
C7_Start ==
    [][(last'.op = "onStart" /\ Len(words) > 0 /\ ~started) =>
          /\ started'
          /\ correct' = 0
          /\ wrong' = 0
          /\ word' # Null
          /\ word'[1] \in WordSet(words')
          /\ used' = {word'[1]}
          /\ Len(queue') = Len(words') - 1
          /\ last'.resets = 1
          /\ SameEntries(last'.snapQueue, words')
          /\ <<word'[1]>> \o queue' = last'.snapQueue
          /\ words' = words]_vars

\* a game started on a list of several words
C7_Witness ==
    /\ last.op = "onStart"
    /\ started
    /\ ~last.fromStarted
    /\ Len(words) >= 2
    /\ Len(queue) = Len(words) - 1

\* C8: restart, from any state with a word list, leaves the session
\* NotStarted with both counters 0, no current word, the UsedSet empty and
\* the Deck a fresh permutation of the whole list, and leaves the word list
\* and the chosen dictionary as they were.
C8_Restart ==
    [][(last'.op = "onRestart" /\ Len(words) > 0) =>
          /\ ~started'
          /\ correct' = 0
          /\ wrong' = 0
          /\ word' = Null
          /\ used' = {}
          /\ last'.resets = 1
          /\ queue' = last'.snapQueue
          /\ SameEntries(queue', words)
          /\ words' = words
          /\ dictLabel' = dictLabel
          /\ dictName' = dictName]_vars

\* a restart in the middle of a game, after answers
C8_Witness ==
    /\ last.op = "onRestart"
    /\ last.fromStarted
    /\ last.fromAnswers >= 2
    /\ ~started
    /\ Len(queue) >= 2

\* what the claim calls blank: no character but whitespace
Blank(w) == \A k \in 1..Len(w) : w[k] \in Whitespace

\* w without its leading and trailing whitespace, for a w that is not blank
Stripped(w) ==
    LET solid == {k \in 1..Len(w) : w[k] \notin Whitespace}
        lo == CHOOSE k \in solid : \A m \in solid : k <= m
        hi == CHOOSE k \in solid : \A m \in solid : k >= m
    IN  [k \in 1..(hi - lo + 1) |-> w[lo + k - 1]]

\* the entries that are not blank, stripped, in their order
StrippedNonBlank(ws) ==
    LET kept == {i \in 1..Len(ws) : ~Blank(ws[i])}
        nth(k) == CHOOSE i \in kept : Cardinality({j \in kept : j < i}) = k - 1
    IN  [k \in 1..Cardinality(kept) |-> Stripped(ws[nth(k)])]

\* the load must fail: the fetch failed, the status is no success, or words
\* is no array or has no entry that is not blank
MustFail(res) ==
    \/ res.kind = "reject"
    \/ ~(res.status \in 200..299)
    \/ ~res.wordsIsArray
    \/ \A i \in 1..Len(res.words) : Blank(res.words[i])

\* C9: a load whose fetch fails, whose status is no success, or whose words
\* is no array or has only blank entries ends with a non-empty error message
\* stored (carrying the status when the status is the cause) and installs
\* nothing; every other load ends without error and installs exactly the
\* entries that are not blank, trimmed, in their order.
C9_LoadOutcome ==
    (last.op \in {"loaded", "loadFailed"}) =>
        IF MustFail(last.res)
        THEN /\ last.op = "loadFailed"
             /\ errMsg.text # ""
             /\ (last.res.kind = "response" /\ ~(last.res.status \in 200..299))
                   => errMsg.status = last.res.status
        ELSE /\ last.op = "loaded"
             /\ errMsg = NoMsg
             /\ words = StrippedNonBlank(last.res.words)

\* a load that installed fewer words than entries, one of them trimmed
C9_Witness ==
    /\ last.op = "loaded"
    /\ Len(words) >= 2
    /\ Len(words) < Len(last.res.words)
    /\ \E i \in 1..Len(words) : words[i] \notin Range(last.res.words)

\* C10: a failed load changes only the error message and the loading flag:
\* the word list, the dictionary's label and name, started, both counters,
\* the current word, the UsedSet and the Deck stay as they were, loading is
\* false again, and no fetch is issued by it; a fetch is issued only by the
\* user choosing a list.
C10_FailedLoadFrame ==
    [][/\ last'.op = "loadFailed" =>
            /\ words' = words
            /\ dictLabel' = dictLabel
            /\ dictName' = dictName
            /\ started' = started
            /\ correct' = correct
            /\ wrong' = wrong
            /\ word' = word
            /\ used' = used
            /\ queue' = queue
            /\ loading' = FALSE
            /\ errMsg'.text # ""
            /\ Len(pending') < Len(pending)
       /\ Len(pending') > Len(pending) => last'.op = "chooseDict"]_vars

\* a load that failed while a game was being played
C10_Witness ==
    /\ last.op = "loadFailed"
    /\ started
    /\ correct + wrong >= 1
    /\ Cardinality(used) >= 2
    /\ ~loading
    /\ pending = <<>>

(***************************************************************************)
(* The answers.                                                            *)
(***************************************************************************)
\* the answers given since the last start, while the count of the top-level
\* dealNext calls has not reached its cap: the start made the first call
AnswersSinceStart == dealCalls - 1

\* C12: an answer given while Playing keeps the session Playing, adds exactly
\* one to correct when it is a correct answer and to wrong when it is not,
\* leaves the other counter alone and deals the next word; hence in every
\* Playing state correct + wrong is the number of answers since the last start.
C12_AnswerCounts ==
    /\ [](started =>
            IF dealCalls <= MaxLen
            THEN correct + wrong = AnswersSinceStart
            ELSE correct + wrong >= MaxLen)
    /\ [][(last'.op = "onAnswer" /\ started) =>
            /\ started'
            /\ IF last'.isCorrect
               THEN correct' = correct + 1 /\ wrong' = wrong
               ELSE wrong' = wrong + 1 /\ correct' = correct
            /\ last'.calls >= 1
            /\ ~last'.diverged
            /\ word' # Null
            /\ word'[1] \in WordSet(words')]_vars

\* a Playing session after one correct and two incorrect answers
C12_Witness ==
    /\ started
    /\ last.op = "onAnswer"
    /\ last.fromStarted
    /\ ~last.isCorrect
    /\ correct = 1
    /\ wrong = 2

(***************************************************************************)
(* The word on display and the UsedSet.                                    *)
(***************************************************************************)
\* C14: while Playing the current word is not null, is an entry of the word
\* list and is in the UsedSet; and always the UsedSet holds only words of the
\* list, so that the progress shown, |UsedSet|, is at most the list's length.
C14_WordInList ==
    /\ started =>
         /\ word # Null
         /\ word[1] \in WordSet(words)
         /\ word[1] \in used
    /\ used \subseteq WordSet(words)
    /\ Cardinality(used) <= Len(words)

\* Playing on a list of two words, both dealt, the second by an answer
C14_Witness ==
    /\ started
    /\ last.op = "onAnswer"
    /\ Len(words) = 2
    /\ Cardinality(used) = Len(words)

\* C15: while Playing, |UsedSet| = ((correct + wrong) mod D) + 1 with D the
\* number of distinct words of the list; an answer resets the deck (begins a
\* new cycle) exactly when it is a D-th answer after the start, repeated words
\* in the list or not.
C15_CycleProgress ==
    /\ [](started =>
            Cardinality(used) = ((correct + wrong) % Distinct(words)) + 1)
    /\ [][(last'.op = "onAnswer" /\ started) =>
            /\ last'.resets <= 1
            /\ last'.resets = 1 <=> (correct' + wrong') % Distinct(words') = 0]_vars

\* the second answer on a list of three entries, two of them distinct: it
\* begins a new cycle
C15_Witness ==
    /\ started
    /\ last.op = "onAnswer"
    /\ last.resets = 1
    /\ Len(words) = 3
    /\ Distinct(words) = 2
    /\ correct + wrong = 2

(***************************************************************************)
(* Loads that end while a game is on.                                      *)
(***************************************************************************)
\* C16: a load that ends successfully while a game on the previous list is
\* being played puts the session back to NotStarted with both counters 0, no
\* current word and an empty UsedSet; and the Deck, the current word and the
\* words dealt since the start are always words of the current list, so that
\* after that load no word that only the old list had is in the Deck or dealt.
C16_LoadWhilePlaying ==
    /\ [][(last'.op = "loaded" /\ started) =>
            /\ ~started'
            /\ correct' = 0
            /\ wrong' = 0
            /\ word' = Null
            /\ used' = {}
            /\ Range(queue') \subseteq WordSet(words')
            /\ words' = last'.res.words]_vars
    /\ [](/\ Range(queue) \subseteq WordSet(words)
          /\ Range(dealt) \subseteq WordSet(words)
          /\ word # Null => word[1] \in WordSet(words))

\* a load has just ended well during a game with answers given, on a list
\* with a word the new list has not
C16_Witness ==
    /\ last.op = "loaded"
    /\ last.fromStarted
    /\ last.fromAnswers >= 1
    /\ WordSet(last.fromWords) \ WordSet(words) # {}

(***************************************************************************)
(* The loads in flight.                                                    *)
(***************************************************************************)
\* C17: at most one load is in flight; a load is requested only while the
\* session is NotStarted and loading is false; loading is true exactly while
\* a load is in flight; and a load that ends, well or not, leaves loading
\* false.
C17_OneLoad ==
    /\ [](/\ Len(pending) <= 1
          /\ loading <=> Len(pending) > 0)
    /\ [][/\ Len(pending') > Len(pending) =>
               /\ ~started
               /\ ~loading
               /\ loading'
               /\ last'.op = "chooseDict"
          /\ Len(pending') < Len(pending) =>
               /\ last'.op \in {"loaded", "loadFailed"}
               /\ ~loading'
          /\ last'.op = "chooseDict" => Len(pending') = Len(pending) + 1
          /\ last'.op \in {"loaded", "loadFailed"} =>
               /\ Len(pending') = Len(pending) - 1
               /\ ~loading']_vars

\* a load is in flight during a game on a list loaded before
C17_Witness ==
    /\ Len(pending) = 1
    /\ loading
    /\ started
    /\ dictLabel # Null

(***************************************************************************)
(* dealNext as a call, and the guards of the handlers.                     *)
(***************************************************************************)
\* C13: dealNext terminates.  On a non-empty list a top-level call resets the
\* deck at most once and calls itself at most once, and returns with a word
\* dealt; the call it makes after a reset deals the front word of the fresh
\* deck.  On an empty list it returns at once, with no reset and no call of
\* itself.  (An onStart resets once itself before its dealNext.)
C13_DealNextReturns ==
    last.op \in {"onStart", "onAnswer", "dealNext"} /\ last.calls >= 1 =>
      /\ ~last.diverged
      /\ IF Len(words) = 0
         THEN /\ last.calls = 1
              /\ last.resets = 0
         ELSE /\ word # Null
              /\ last.calls <= 2
              /\ last.resets <= 1
              /\ last.op = "onStart" => last.calls = 1
              /\ last.calls = 2 =>
                   /\ last.resets = 1
                   /\ word = Some(Head(last.snapQueue))
                   /\ queue = Tail(last.snapQueue)

\* an answer whose dealNext found the Deck holding used words only, reset it
\* and called itself
C13_Witness ==
    /\ last.op = "onAnswer"
    /\ last.calls = 2
    /\ last.resets = 1
    /\ ~last.preEmpty

\* C18: an answer while the session is NotStarted, and a start or a dealNext
\* while the word list is empty, leave started, both counters, the current
\* word, the UsedSet and the Deck as they were.
C18_GuardedNoOps ==
    [][(\/ last'.op = "onAnswer" /\ ~started
        \/ last'.op \in {"onStart", "dealNext"} /\ Len(words) = 0) =>
          UNCHANGED <<started, correct, wrong, word, used, queue>>]_vars

\* an answer has been given on the start screen of a loaded list, with its
\* deck ready
C18_Witness ==
    /\ last.op = "onAnswer"
    /\ ~last.fromStarted
    /\ ~started
    /\ Len(words) > 0
    /\ Len(queue) > 0

(***************************************************************************)
(* Unending play.                                                          *)
(***************************************************************************)
\* an answer has just dealt w
Dealt(w) == last.op = "onAnswer" /\ ~last.diverged /\ word = Some(w)

\* C11: the session has no terminal state.  In every Playing state an answer
\* is enabled, and an answer deals a word; and in a run that from some point on
\* stays Playing (no restart, no load ending well) while answers keep coming,
\* the deck is reshuffled infinitely often and every word of the list is dealt
\* infinitely often.
C11_UnendingPlay ==
    /\ [](started => ENABLED AnswerOn)
    /\ [][(last'.op = "onAnswer" /\ started) =>
            /\ ~last'.diverged
            /\ last'.calls >= 1
            /\ word' # Null]_vars
    /\ <>[]started => []<>(last.op = "onAnswer" /\ last.resets = 1)
    /\ \A w \in Entries :
         <>[](started /\ w \in WordSet(words)) => []<>Dealt(w)

\* an answer given after more top-level deals than the list is long, its
\* words dealt more than once each, has reset the deck again
C11_Witness ==
    /\ started
    /\ last.op = "onAnswer"
    /\ last.resets = 1
    /\ dealCalls > MaxLen
    /\ Len(words) = MaxLen
    /\ Distinct(words) = 2
=============================================================================
